---- MODULE Spec2Model ----
(***************************************************************************)
(* A model of the two-wide out-of-order RISC-V pipeline simulator          *)
(* (class Simulator, with GsharePredictor and the decoded program store).  *)
(*                                                                         *)
(* One call of step() is three actions, taken in the order the code calls  *)
(* the stages: StageCommit (clock++ and stageCommit, with flushPipeline),  *)
(* StageExecute (stageExecute over rsALU.concat(rsLS)) and                 *)
(* StageFetchAndIssue (the while loop of up to `width` issues).            *)
(*                                                                         *)
(* The stages are operators over a record of the simulator's fields, so    *)
(* that a whole cycle can also be evaluated as a function (StepOf).        *)
(*                                                                         *)
(* The L1 caches only feed their own counters and the log: no stage reads   *)
(* them back. They are modelled on their own (class Cache, SpecCache): the  *)
(* sequence of accesses a program makes is the input, and the value of      *)
(* Date.now() at each access is any value not below the one before. The     *)
(* same sequence is applied to the cache of a second run with its own wall  *)
(* clock. The log, the occupancy histories and the DOM are not modelled.    *)
(*                                                                         *)
(* Results and operands are JavaScript numbers and can leave the 32-bit    *)
(* range until an Int32Array stores them: each is kept as its 32-bit value *)
(* and the multiple of 2^32 above it (Num). SpecReload is the simulator on *)
(* which loadProgram is called again between two steps.                    *)
(***************************************************************************)
EXTENDS Integers, Sequences, FiniteSets, TLC

VARIABLES
    instructions,           \* decoded program: instructions[pc / 4 + 1]
    memory,                 \* Int32Array(65536), kept as its non-zero words
    regFile,                \* Int32Array(32)
    pc,
    clock,
    rat,                    \* -1 = value in regFile, otherwise a ROB tag
    rob,                    \* head is rob[1]
    rsALU,
    rsLS,
    lsq,
    branchCorrect,
    branchTotal,
    ghr,                    \* predictor.ghr
    pht,                    \* predictor.pht, kept as the counters that differ from PhtInit
    instructionsCommitted,
    nextRobTag,
    stage,                  \* position inside step(): "commit", "execute" or "issue"
    l1d,                    \* a Cache object (this.l1d)
    now,                    \* the wall clock Date.now() reads
    l1dRerun,               \* the same Cache object in a second run of the program
    nowRerun,               \* the wall clock of the second run
    accesses                \* number of access() calls so far

pipelineVars ==
    <<instructions, memory, regFile, pc, clock, rat, rob, rsALU, rsLS, lsq,
      branchCorrect, branchTotal, ghr, pht, instructionsCommitted, nextRobTag, stage>>

cacheVars == <<l1d, now, l1dRerun, nowRerun, accesses>>

vars == <<pipelineVars, cacheVars>>

-----------------------------------------------------------------------------
(* Bounds of the model *)

MaxProgLen == 4

MaxArithLen == 6

MaxLoopIter == 16

MaxClock == 48

MaxIndep == 12

MaxAccesses == 5

MaxNow == 4

\* loadProgram is called again only while nextRobTag is at most this
MaxReloadTag == 5

(* Constants of the program *)

robSize == 32

width == 2

NumALU == 8

NumLS == 4

NumRegs == 32

MemWords == 65536

PhtSize == 1024

PhtInit == 1

GhrBits == 10

LatALU == 1

LatLOAD == 2

LatSTORE == 1

LatBRANCH == 1

Int32Max == 2147483647

CacheSets == 32

CacheWays == 2

BlockSize == 64

-----------------------------------------------------------------------------
(* Numbers *)

\* A JavaScript number n is kept as two integers: lo, its value wrapped into
\* [-2^31, 2^31 - 1], and hi, the number of times 2^32 it lies above lo:
\* n = hi * 2^32 + lo. A field f of the code that can leave the 32-bit range
\* is the pair of fields f (lo) and fHi (hi) of the model.
Num(hi, lo) == [hi |-> hi, lo |-> lo]

Int32Min == (0 - Int32Max) - 1

\* the carry of a.lo + b.lo out of 32 bits
AddCarry(x, y) ==
    IF x >= 0 /\ y > Int32Max - x THEN 1
    ELSE IF x < 0 /\ y < Int32Min - x THEN -1
    ELSE 0

\* a + b on numbers (exact, as on doubles below 2^53)
JsAdd(a, b) ==
    LET c == AddCarry(a.lo, b.lo)
    IN Num(a.hi + b.hi + c,
           CASE c = 1 -> ((a.lo - Int32Max) - 1) + ((b.lo - Int32Max) - 1)
             [] c = -1 -> ((a.lo + Int32Max) + 1) + ((b.lo + Int32Max) + 1)
             [] OTHER -> a.lo + b.lo)

\* the borrow of a.lo - b.lo out of 32 bits
SubCarry(x, y) ==
    IF y < 0 /\ x > Int32Max + y THEN 1
    ELSE IF y > 0 /\ x < Int32Min + y THEN -1
    ELSE 0

\* a - b on numbers
JsSub(a, b) ==
    LET c == SubCarry(a.lo, b.lo)
    IN Num((a.hi - b.hi) + c,
           CASE c = 1 -> ((a.lo - Int32Max) - 1) - ((b.lo + Int32Max) + 1)
             [] c = -1 -> ((a.lo + Int32Max) + 1) - ((b.lo - Int32Max) - 1)
             [] OTHER -> a.lo - b.lo)

\* Store conversion of a typed Int32Array: the number modulo 2^32, wrapped
\* into [-2^31, 2^31 - 1]
ToInt32(x) == x.lo

RECURSIVE BitXor(_, _, _)
\* a ^ b on the low n bits (a, b >= 0)
BitXor(a, b, n) ==
    IF n = 0 THEN 0
    ELSE (((a % 2) + (b % 2)) % 2) + 2 * BitXor(a \div 2, b \div 2, n - 1)

-----------------------------------------------------------------------------
(* Decoded instructions *)

Instr(op, rd, rs1, rs2, imm) ==
    [op |-> op, rd |-> rd, rs1 |-> rs1, rs2 |-> rs2, imm |-> imm]

\* this.instructions[pc]: the template, or undefined
HasTemplate(prog, p) == (p % 4) = 0 /\ (p \div 4) + 1 \in 1..Len(prog)

Template(prog, p) == prog[(p \div 4) + 1]

\* Object.keys(this.instructions).length * 4
ProgramEnd(prog) == Len(prog) * 4

-----------------------------------------------------------------------------
(* Main memory: new Int32Array(65536) *)

MemRead(mem, idx) ==
    IF idx \in DOMAIN mem THEN mem[idx] ELSE 0

\* mem[idx] = v, for an integer idx and a number v; out of range is ignored
\* by the typed array
MemPut(mem, idx, v) ==
    IF idx < 0 \/ idx >= MemWords THEN mem
    ELSE LET w == ToInt32(v)
             d == IF w = 0 THEN DOMAIN mem \ {idx} ELSE DOMAIN mem \cup {idx}
         IN [i \in d |-> IF i = idx THEN w ELSE mem[i]]

\* head.memAddr of a ROB entry: the entries pushed by stageFetchAndIssue have
\* no memAddr property, so the read is undefined
RobMemAddr(entry) ==
    IF "memAddr" \in DOMAIN entry
    THEN [defined |-> TRUE, v |-> Num(entry.memAddrHi, entry.memAddr)]
    ELSE [defined |-> FALSE, v |-> Num(0, 0)]

\* this.memory[a / 4] = v: a store to a key that is not an integer index
\* (undefined / 4 is NaN, a / 4 with a remainder is a fraction) is dropped,
\* and so is one to an index at or above 2^30
MemoryStore(mem, a, v) ==
    IF a.defined /\ a.v.hi = 0 /\ (a.v.lo % 4) = 0
    THEN MemPut(mem, a.v.lo \div 4, v) ELSE mem

\* this.memory[Math.floor(addr / 4)] | 0: undefined | 0 is 0
MemoryLoad(mem, addr) ==
    IF addr.hi = 0 THEN MemRead(mem, addr.lo \div 4) ELSE 0

-----------------------------------------------------------------------------
(* GsharePredictor *)

PhtIndex(p, g) == BitXor(p % PhtSize, g, GhrBits)

PhtGet(table, idx) == IF idx \in DOMAIN table THEN table[idx] ELSE PhtInit

PhtSet(table, idx, c) ==
    LET d == IF c = PhtInit THEN DOMAIN table \ {idx} ELSE DOMAIN table \cup {idx}
    IN [i \in d |-> IF i = idx THEN c ELSE table[i]]

\* Faulty variant: counter >= 1 counts as taken, so does the initial counter
predictFromWeak(s, p) == PhtGet(s.pht, PhtIndex(p, s.ghr)) >= 1

predict(s, p) == PhtGet(s.pht, PhtIndex(p, s.ghr)) >= 2

\* Faulty variant: the branches of the taken case are swapped, the counter
\* never goes up
CounterStepDownOnly(counter, taken) ==
    IF counter > 0 THEN counter - 1 ELSE counter

CounterStep(counter, taken) ==
    IF taken THEN (IF counter < 3 THEN counter + 1 ELSE counter)
    ELSE (IF counter > 0 THEN counter - 1 ELSE counter)

\* Faulty variant: the counter is updated but the outcome is not shifted into
\* the history
updateKeepsHistory(s, p, taken) ==
    LET index == PhtIndex(p, s.ghr)
    IN [s EXCEPT !.pht = PhtSet(@, index, CounterStep(PhtGet(@, index), taken))]

update(s, p, taken) ==
    LET index == PhtIndex(p, s.ghr)
    IN [s EXCEPT !.pht = PhtSet(@, index, CounterStep(PhtGet(@, index), taken)),
                 !.ghr = (2 * @ + (IF taken THEN 1 ELSE 0)) % PhtSize]

-----------------------------------------------------------------------------
(* class Cache *)

\* { tag: -1, lru: 0, dirty: false }
InvalidLine == [tag |-> -1, lru |-> 0, dirty |-> FALSE]

\* new Cache(...)
NewCache ==
    [tags |-> [i \in 0..(CacheSets - 1) |-> [w \in 1..CacheWays |-> InvalidLine]],
     accessCount |-> 0, hitCount |-> 0, missCount |-> 0]

\* (addr >> 6) & 0x1F
CacheIndex(addr) == (addr \div BlockSize) % CacheSets

\* addr >> 11
CacheTag(addr) == addr \div (BlockSize * CacheSets)

\* Check Hit: the first way whose tag matches, 0 when none
HitWay(set, tag) ==
    LET hits == {w \in 1..CacheWays : set[w].tag = tag}
    IN IF hits = {} THEN 0 ELSE CHOOSE w \in hits : \A v \in hits : w <= v

\* Handle Replacement (LRU): the first way holding the smallest lru
VictimWay(set) ==
    CHOOSE w \in 1..CacheWays :
        /\ \A v \in 1..CacheWays : set[w].lru <= set[v].lru
        /\ \A v \in 1..(w - 1) : set[v].lru > set[w].lru

\* access(addr, isWrite), with t the value Date.now() returns in it
access(c, addr, isWrite, t) ==
    LET index == CacheIndex(addr)
        tag == CacheTag(addr)
        set == c.tags[index]
        wayIdx == HitWay(set, tag)
    IN IF wayIdx # 0
       THEN [c EXCEPT !.accessCount = @ + 1,
                      !.hitCount = @ + 1,
                      !.tags[index][wayIdx] =
                          [@ EXCEPT !.lru = t, !.dirty = IF isWrite THEN TRUE ELSE @]]
       ELSE [c EXCEPT !.accessCount = @ + 1,
                      !.missCount = @ + 1,
                      !.tags[index][VictimWay(set)] =
                          [tag |-> tag, lru |-> t, dirty |-> isWrite]]

-----------------------------------------------------------------------------
(* Simulator state as a record *)

FreeRS == [busy |-> FALSE]

initRS(n) == [i \in 1..n |-> FreeRS]

Cur ==
    [memory |-> memory, regFile |-> regFile, pc |-> pc, rat |-> rat, rob |-> rob,
     rsALU |-> rsALU, rsLS |-> rsLS, lsq |-> lsq,
     branchCorrect |-> branchCorrect, branchTotal |-> branchTotal,
     ghr |-> ghr, pht |-> pht,
     instructionsCommitted |-> instructionsCommitted, nextRobTag |-> nextRobTag]

Install(s) ==
    /\ memory' = s.memory
    /\ regFile' = s.regFile
    /\ pc' = s.pc
    /\ rat' = s.rat
    /\ rob' = s.rob
    /\ rsALU' = s.rsALU
    /\ rsLS' = s.rsLS
    /\ lsq' = s.lsq
    /\ branchCorrect' = s.branchCorrect
    /\ branchTotal' = s.branchTotal
    /\ ghr' = s.ghr
    /\ pht' = s.pht
    /\ instructionsCommitted' = s.instructionsCommitted
    /\ nextRobTag' = s.nextRobTag
    /\ UNCHANGED cacheVars

\* rob.find(r => r.robTag === tag): index of the first match, 0 when none
RobFind(robSeq, tag) ==
    LET hits == {i \in 1..Len(robSeq) : robSeq[i].robTag = tag}
    IN IF hits = {} THEN 0 ELSE CHOOSE i \in hits : \A j \in hits : i <= j

LsqFind(q, tag) ==
    LET hits == {i \in 1..Len(q) : q[i].robTag = tag}
    IN IF hits = {} THEN 0 ELSE CHOOSE i \in hits : \A j \in hits : i <= j

IsBranch(op) == op \in {"BEQ", "BNE"}

-----------------------------------------------------------------------------
(* flushPipeline(correctPC, taken) *)

\* Faulty variant: the flush forgets this.rat.fill(-1)
flushPipelineKeepsRat(s, correctPC, taken) ==
    [s EXCEPT !.rob = <<>>,
              !.rsALU = initRS(NumALU),
              !.rsLS = initRS(NumLS),
              !.pc = correctPC]

\* Faulty variant: the flush also puts the predictor back to its initial state
flushPipelineResetsPredictor(s, correctPC, taken) ==
    [s EXCEPT !.rob = <<>>,
              !.rsALU = initRS(NumALU),
              !.rsLS = initRS(NumLS),
              !.rat = [i \in 0..(NumRegs - 1) |-> -1],
              !.pc = correctPC,
              !.ghr = 0,
              !.pht = <<>>]

flushPipeline(s, correctPC, taken) ==
    [s EXCEPT !.rob = <<>>,
              !.rsALU = initRS(NumALU),
              !.rsLS = initRS(NumLS),
              !.rat = [i \in 0..(NumRegs - 1) |-> -1],
              !.pc = correctPC]

-----------------------------------------------------------------------------
(* stageCommit *)

\* Faulty variant: the RAT entry is released without comparing it with the tag
CommitRegisterAlwaysReleases(s, head) ==
    IF head.rd # 0 /\ head.op # "SW" /\ ~IsBranch(head.op)
    THEN [s EXCEPT !.regFile[head.rd] = ToInt32(Num(head.resultHi, head.result)),
                   !.rat[head.rd] = -1]
    ELSE s

\* Faulty variant: the register is written but the RAT entry is never released
CommitRegisterKeepsRat(s, head) ==
    IF head.rd # 0 /\ head.op # "SW" /\ ~IsBranch(head.op)
    THEN [s EXCEPT !.regFile[head.rd] = ToInt32(Num(head.resultHi, head.result))]
    ELSE s

\* Write Result to ARF, and release the RAT entry that still names the tag
CommitRegister(s, head) ==
    IF head.rd # 0 /\ head.op # "SW" /\ ~IsBranch(head.op)
    THEN [s EXCEPT !.regFile[head.rd] = ToInt32(Num(head.resultHi, head.result)),
                   !.rat[head.rd] = IF @ = head.robTag THEN -1 ELSE @]
    ELSE s

\* Faulty variant: rob.pop() instead of rob.shift(), the youngest entry leaves
RetireHeadFromTail(s) ==
    [s EXCEPT !.rob = SubSeq(@, 1, Len(@) - 1), !.instructionsCommitted = @ + 1]

\* Faulty variant: the head is removed without counting it as committed
RetireHeadUncounted(s) ==
    [s EXCEPT !.rob = Tail(@)]

\* Remove from ROB
RetireHead(s) ==
    [s EXCEPT !.rob = Tail(@), !.instructionsCommitted = @ + 1]

\* Faulty variant: an address that is not a word of the memory is clamped to
\* its last word
CommitStoreClamped(mem, head) ==
    LET a == RobMemAddr(head)
    IN IF a.defined /\ a.v.hi = 0 /\ (a.v.lo \div 4) \in 0..(MemWords - 1)
       THEN MemoryStore(mem, a, Num(head.resultHi, head.result))
       ELSE MemPut(mem, MemWords - 1, Num(head.resultHi, head.result))

\* the memory write of a committing SW
CommitStore(mem, head) ==
    MemoryStore(mem, RobMemAddr(head), Num(head.resultHi, head.result))

\* Handle Store/Load Commit (LSQ)
CommitMemory(s, head) ==
    IF s.lsq # <<>> /\ Head(s.lsq).robTag = head.robTag /\ Head(s.lsq).isMemReady
    THEN RetireHead([s EXCEPT !.memory = IF head.op = "SW" THEN CommitStore(@, head) ELSE @,
                              !.lsq = Tail(@)])
    ELSE s

\* const actualTaken = head.result === 1
ActualTaken(head) == head.resultHi = 0 /\ head.result = 1

\* Faulty variant: only a branch predicted taken is ever found mispredicted
MispredictedOnlyIfPredictedTaken(head) ==
    IsBranch(head.op) /\ head.predictedTaken /\ ~ActualTaken(head)

\* Check for Branch Misprediction: actualTaken !== head.predictedTaken
Mispredicted(head) ==
    IsBranch(head.op) /\ ActualTaken(head) # head.predictedTaken

stageCommit(s) ==
    IF s.rob = <<>> THEN s
    ELSE LET head == Head(s.rob) IN
         IF ~head.isReady THEN s
         ELSE LET actualTaken == ActualTaken(head)
                  s1 == IF IsBranch(head.op)
                        THEN update([s EXCEPT !.branchTotal = @ + 1,
                                              !.branchCorrect =
                                                  IF actualTaken = head.predictedTaken
                                                  THEN @ + 1 ELSE @],
                                    head.pc, actualTaken)
                        ELSE s
              IN IF Mispredicted(head)
                 THEN flushPipeline(s1, head.targetAddr, actualTaken)
                 ELSE LET s2 == CommitRegister(s1, head)
                      IN IF head.op \in {"SW", "LW"}
                         THEN CommitMemory(s2, head)
                         ELSE RetireHead(s2)

-----------------------------------------------------------------------------
(* stageExecute *)

\* Check operands: capture the result of a producer that is ready in the ROB
WakeUp(robSeq, q, v) ==
    IF q # -1
    THEN LET i == RobFind(robSeq, q)
         IN IF i # 0 /\ robSeq[i].isReady
            THEN [q |-> -1, v |-> Num(robSeq[i].resultHi, robSeq[i].result)]
            ELSE [q |-> q, v |-> v]
    ELSE [q |-> q, v |-> v]

\* Compute Result (the switch on inst.op; an op without a case leaves val = 0)
ComputeResult(mem, op, vj, vk, imm, memAddr) ==
    CASE op = "ADD" -> JsAdd(vj, vk)
      [] op = "SUB" -> JsSub(vj, vk)
      [] op = "ADDI" -> JsAdd(vj, Num(0, imm))
      [] op = "LW" -> Num(0, MemoryLoad(mem, memAddr))
      [] op = "SW" -> vk
      [] op = "BEQ" -> Num(0, IF vj = vk THEN 1 ELSE 0)
      [] op = "BNE" -> Num(0, IF vj # vk THEN 1 ELSE 0)
      [] OTHER -> Num(0, 0)

\* Faulty variant: the store writes memory as soon as it executes
ExecuteStoreMemoryEager(mem, memAddr, val) ==
    MemoryStore(mem, [defined |-> TRUE, v |-> memAddr], val)

\* case 'SW' of the switch: the store does not write memory until commit
ExecuteStoreMemory(mem, memAddr, val) == mem

\* Marca LSQ como pronta
LsqMark(q, inst, memAddr, val) ==
    LET i == LsqFind(q, inst.robTag)
    IN IF i = 0 \/ inst.op \notin {"LW", "SW"} THEN q
       ELSE IF inst.op = "SW"
            THEN [q EXCEPT ![i] = [@ EXCEPT !.memAddr = memAddr.lo,
                                            !.memAddrHi = memAddr.hi,
                                            !.value = val.lo, !.valueHi = val.hi,
                                            !.isMemReady = TRUE]]
            ELSE [q EXCEPT ![i] = [@ EXCEPT !.memAddr = memAddr.lo,
                                            !.memAddrHi = memAddr.hi,
                                            !.isMemReady = TRUE]]

\* Target address calculation for flush logic
BranchTarget(inst, val) == IF val = Num(0, 1) THEN inst.pc + inst.imm ELSE inst.pc + 4

\* Broadcast to ROB
Broadcast(robSeq, inst, val) ==
    LET i == RobFind(robSeq, inst.robTag)
    IN IF i = 0 THEN robSeq
       ELSE [robSeq EXCEPT ![i] =
                [@ EXCEPT !.result = val.lo, !.resultHi = val.hi, !.isReady = TRUE,
                          !.targetAddr = IF IsBranch(inst.op)
                                         THEN BranchTarget(inst, val) ELSE @]]

\* If ready to execute
ReadyToExecute(rs) ==
    /\ rs.qj = -1
    /\ rs.qk = -1
    /\ ~rs.inst.isReady
    /\ rs.inst.executionCyclesLeft > 0

\* the body of the forEach for the k-th station of a pool ("rsALU" or "rsLS")
ExecuteOne(s, pool, k) ==
    LET rs0 == s[pool][k] IN
    IF ~rs0.busy THEN s
    ELSE
    LET wj == WakeUp(s.rob, rs0.qj, Num(rs0.vjHi, rs0.vj))
        wk == WakeUp(s.rob, rs0.qk, Num(rs0.vkHi, rs0.vk))
        rs1 == [rs0 EXCEPT !.qj = wj.q, !.vj = wj.v.lo, !.vjHi = wj.v.hi,
                           !.qk = wk.q, !.vk = wk.v.lo, !.vkHi = wk.v.hi]
        vj == Num(rs1.vjHi, rs1.vj)
        vk == Num(rs1.vkHi, rs1.vk)
        inst == rs1.inst
    IN  IF ~ReadyToExecute(rs1) THEN [s EXCEPT ![pool][k] = rs1]
        ELSE
        LET addr == IF inst.executionCyclesLeft = inst.totalCycles
                       /\ inst.op \in {"LW", "SW"}
                    THEN JsAdd(vj, Num(0, inst.imm))
                    ELSE Num(inst.memAddrHi, inst.memAddr)
            left == inst.executionCyclesLeft - 1
            val == ComputeResult(s.memory, inst.op, vj, vk, inst.imm, addr)
        IN  IF left # 0
            THEN [s EXCEPT ![pool][k] =
                     [rs1 EXCEPT !.inst = [inst EXCEPT !.memAddr = addr.lo,
                                                       !.memAddrHi = addr.hi,
                                                       !.executionCyclesLeft = left]]]
            ELSE [s EXCEPT
                     ![pool][k] =
                         [rs1 EXCEPT !.busy = FALSE,
                                     !.inst = [inst EXCEPT !.memAddr = addr.lo,
                                                           !.memAddrHi = addr.hi,
                                                           !.executionCyclesLeft = left,
                                                           !.result = val.lo,
                                                           !.resultHi = val.hi,
                                                           !.isReady = TRUE]],
                     !.memory = IF inst.op = "SW" THEN ExecuteStoreMemory(@, addr, val) ELSE @,
                     !.lsq = LsqMark(@, inst, addr, val),
                     !.rob = Broadcast(@, inst, val)]

RECURSIVE ExecutePool(_, _, _)
ExecutePool(s, pool, k) ==
    IF k > Len(s[pool]) THEN s ELSE ExecutePool(ExecuteOne(s, pool, k), pool, k + 1)

\* Faulty variant: Commit is called after Execute, in the same cycle
stageExecuteThenCommit(s) == stageCommit(ExecutePool(ExecutePool(s, "rsALU", 1), "rsLS", 1))

\* this.rsALU.concat(this.rsLS).forEach(...)
stageExecute(s) == ExecutePool(ExecutePool(s, "rsALU", 1), "rsLS", 1)

-----------------------------------------------------------------------------
(* stageFetchAndIssue *)

IsLS(op) == op \in {"LW", "SW"}

\* pool.find(r => !r.busy): index of the first free station, 0 when none
FirstFree(pool) ==
    LET free == {i \in 1..Len(pool) : ~pool[i].busy}
    IN IF free = {} THEN 0 ELSE CHOOSE i \in free : \A j \in free : i <= j

\* Faulty variant: the producer's ROB entry is not looked at, the tag is
\* recorded whenever the RAT holds one
RenameWithoutBypass(s, r) ==
    IF s.rat[r] # -1
    THEN [q |-> s.rat[r], v |-> Num(0, 0)]
    ELSE [q |-> -1, v |-> Num(0, s.regFile[r])]

\* Rename (Read RAT/ARF) of one source register
Rename(s, r) ==
    IF s.rat[r] # -1
    THEN LET i == RobFind(s.rob, s.rat[r])
         IN IF i # 0 /\ s.rob[i].isReady
            THEN [q |-> -1, v |-> Num(s.rob[i].resultHi, s.rob[i].result)]
            ELSE [q |-> s.rat[r], v |-> Num(0, 0)]
    ELSE [q |-> -1, v |-> Num(0, s.regFile[r])]

\* Faulty variant: every instruction gets the load's latency
LatencyOfLoad(op) == LatLOAD

\* Latency Setup
Latency(op) ==
    IF IsLS(op) THEN (IF op = "LW" THEN LatLOAD ELSE LatSTORE)
    ELSE IF op \in {"BEQ", "BNE", "JAL", "JALR"} THEN LatBRANCH
    ELSE LatALU

\* Faulty variant: the destination is renamed without the rd !== 0 test
RenameDestAlsoX0(ratF, t, tag) ==
    IF ~IsBranch(t.op) /\ t.op # "SW"
    THEN [ratF EXCEPT ![t.rd] = tag] ELSE ratF

\* Update RAT (Rename Destination)
RenameDest(ratF, t, tag) ==
    IF t.rd # 0 /\ ~IsBranch(t.op) /\ t.op # "SW"
    THEN [ratF EXCEPT ![t.rd] = tag] ELSE ratF

\* Branch Prediction & PC Update
NextPC(p, t, pred) ==
    IF IsBranch(t.op) THEN (IF pred THEN p + t.imm ELSE p + 4)
    ELSE IF t.op = "JAL" THEN p + t.imm
    ELSE p + 4

\* Faulty variant: the counter is read but not incremented
NextTagSame(n) == n

\* Assign ROB Tag: const robTag = this.nextRobTag++ leaves the counter one higher
NextTag(n) == n + 1

\* Faulty variant: the capacity check forgets the ROB
CanIssueIgnoringRob(s) ==
    /\ HasTemplate(instructions, s.pc)
    /\ FirstFree(IF IsLS(Template(instructions, s.pc).op) THEN s.rsLS ELSE s.rsALU) # 0

\* Check Capacity (ROB, RS) and end of code: the three "return false"
CanIssue(s) ==
    /\ Len(s.rob) < robSize
    /\ HasTemplate(instructions, s.pc)
    /\ FirstFree(IF IsLS(Template(instructions, s.pc).op) THEN s.rsLS ELSE s.rsALU) # 0

\* one call of stageFetchAndIssue that returns true
IssueOne(s) ==
    LET t == Template(instructions, s.pc)
        pool == IF IsLS(t.op) THEN "rsLS" ELSE "rsALU"
        k == FirstFree(s[pool])
        robTag == s.nextRobTag
        j == Rename(s, t.rs1)
        kk == Rename(s, t.rs2)
        pred == IF IsBranch(t.op) THEN predict(s, s.pc) ELSE FALSE
        inst == [pc |-> s.pc, op |-> t.op, rd |-> t.rd, rs1 |-> t.rs1, rs2 |-> t.rs2,
                 imm |-> t.imm, robTag |-> robTag, predictedTaken |-> pred,
                 totalCycles |-> Latency(t.op), executionCyclesLeft |-> Latency(t.op),
                 isReady |-> FALSE, result |-> 0, resultHi |-> 0,
                 memAddr |-> 0, memAddrHi |-> 0]
        lsqEntry == [robTag |-> robTag, isStore |-> (t.op = "SW"),
                     memAddr |-> -1, memAddrHi |-> 0,
                     value |-> 0, valueHi |-> 0, isMemReady |-> FALSE]
        rsEntry == [busy |-> TRUE, inst |-> inst, op |-> t.op,
                    vj |-> j.v.lo, vjHi |-> j.v.hi, vk |-> kk.v.lo, vkHi |-> kk.v.hi,
                    qj |-> j.q, qk |-> kk.q, robTag |-> robTag]
        robEntry == [robTag |-> robTag, op |-> t.op, rd |-> t.rd, pc |-> s.pc,
                     isReady |-> FALSE, result |-> 0, resultHi |-> 0,
                     predictedTaken |-> pred,
                     targetAddr |-> 0]
    IN [s EXCEPT !.nextRobTag = NextTag(@),
                 !.lsq = IF IsLS(t.op) THEN Append(@, lsqEntry) ELSE @,
                 ![pool][k] = rsEntry,
                 !.rob = Append(@, robEntry),
                 !.rat = RenameDest(@, t, robTag),
                 !.pc = NextPC(@, t, pred)]

RECURSIVE IssueLoop(_, _)
\* while(issued < this.width) { if(!this.stageFetchAndIssue()) break; issued++; }
IssueLoop(s, issued) ==
    IF issued < width /\ CanIssue(s) THEN IssueLoop(IssueOne(s), issued + 1) ELSE s

\* Faulty variant: the loop tests issued <= this.width, one issue too many
stageFetchAndIssueOneMore(s) == IssueLoop(s, -1)

stageFetchAndIssue(s) == IssueLoop(s, 0)

-----------------------------------------------------------------------------
(* step() *)

\* the early return of step(): "Execucao finalizada."
Finished == pc >= ProgramEnd(instructions) /\ rob = <<>>

\* one whole cycle as a function of the state
StepOf(s) == stageFetchAndIssue(stageExecute(stageCommit(s)))

StageCommit ==
    /\ stage = "commit"
    /\ ~Finished
    /\ clock < MaxClock
    /\ clock' = clock + 1
    /\ Install(stageCommit(Cur))
    /\ stage' = "execute"
    /\ UNCHANGED instructions

StageExecute ==
    /\ stage = "execute"
    /\ Install(stageExecute(Cur))
    /\ stage' = "issue"
    /\ UNCHANGED <<instructions, clock>>

StageFetchAndIssue ==
    /\ stage = "issue"
    /\ Install(stageFetchAndIssue(Cur))
    /\ stage' = "commit"
    /\ UNCHANGED <<instructions, clock>>

Next == StageCommit \/ StageExecute \/ StageFetchAndIssue

-----------------------------------------------------------------------------
(* loadProgram(text) *)

\* the fields loadProgram assigns; lsq, nextRobTag, the predictor, the caches
\* and the branch counters are not among them
loadProgram(s) ==
    [s EXCEPT !.pc = 0,
              !.memory = <<>>,
              !.regFile = [i \in 0..(NumRegs - 1) |-> 0],
              !.rat = [i \in 0..(NumRegs - 1) |-> -1],
              !.rob = <<>>,
              !.rsALU = initRS(NumALU),
              !.rsLS = initRS(NumLS),
              !.instructionsCommitted = 0]

-----------------------------------------------------------------------------
(* Programs *)

NOP == Instr("NOP", 0, 0, 0, 0)

\* every program of 1..maxLen instructions drawn from a pool
ProgramsOver(pool, maxLen) == UNION {[1..n -> pool] : n \in 1..maxLen}

\* a counted loop: x1 = n; do { x1-- } while (x1 != 0)
LoopProgram(n) ==
    <<Instr("ADDI", 1, 0, 0, n), Instr("ADDI", 1, 1, 0, -1), Instr("BNE", 0, 1, 0, -4)>>

\* register-only pool: arithmetic, forward branches of both kinds, a backward
\* branch, a write to x0
RegPool ==
    {Instr("ADDI", 1, 0, 0, 2), Instr("ADDI", 1, 1, 0, -1), Instr("ADD", 2, 2, 1, 0),
     Instr("ADDI", 0, 1, 0, 7), Instr("BEQ", 0, 1, 0, 8),
     Instr("BNE", 0, 1, 0, 8), Instr("BNE", 0, 1, 0, -4)}

\* arithmetic pool for the longer straight-line programs, in which issue
\* still goes on while older instructions commit
ArithPool ==
    {Instr("ADDI", 1, 0, 0, 2), Instr("ADDI", 1, 1, 0, -1), Instr("ADD", 2, 2, 1, 0),
     Instr("SUB", 2, 0, 1, 0)}

\* the register-only end-to-end scenarios: straight-line arithmetic, mispredict,
\* RAW through rename, x0 write ignored
RegScenarios ==
    {<<Instr("ADDI", 1, 0, 0, 5), Instr("ADDI", 2, 0, 0, 7), Instr("ADD", 3, 1, 2, 0)>>,
     <<Instr("ADDI", 1, 0, 0, 1), Instr("BNE", 0, 1, 0, 8), Instr("ADDI", 3, 0, 0, 99),
       Instr("ADDI", 4, 0, 0, 7)>>,
     <<Instr("ADDI", 1, 0, 0, 1), Instr("ADDI", 1, 1, 0, 1), Instr("ADDI", 1, 1, 0, 1)>>,
     <<Instr("ADDI", 0, 0, 0, 99), Instr("ADD", 1, 0, 0, 0)>>}

RegPrograms ==
    ProgramsOver(RegPool, MaxProgLen) \cup ProgramsOver(ArithPool, MaxArithLen)
        \cup RegScenarios \cup {LoopProgram(n) : n \in 1..MaxLoopIter}

\* memory pool: a store of x1 to address 8, a load from address 8, a user of
\* the loaded register, and a taken branch over the next instruction
MemPool ==
    {Instr("ADDI", 1, 0, 0, 4), Instr("SW", 0, 1, 1, 4), Instr("LW", 2, 0, 0, 8),
     Instr("ADD", 3, 2, 1, 0), Instr("BNE", 0, 1, 0, 8), NOP}

\* the end-to-end scenarios with memory: load/store round trip, taken branch
\* over a store
MemScenarios ==
    {<<Instr("ADDI", 1, 0, 0, 42), Instr("SW", 0, 0, 1, 0), Instr("LW", 2, 0, 0, 0)>>,
     <<Instr("ADDI", 1, 0, 0, 1), Instr("BEQ", 0, 1, 1, 8), Instr("SW", 0, 0, 1, 0),
       Instr("ADDI", 2, 0, 0, 9)>>}

MemPrograms == ProgramsOver(MemPool, MaxProgLen) \cup MemScenarios

\* n independent ADDIs (every source is x0), over four destination registers
IndepProgram(n) == [i \in 1..n |-> Instr("ADDI", ((i - 1) % 4) + 1, 0, 0, i)]

\* the short ones, and one long enough to fill the ROB: two issues and one
\* commit per cycle leave one more entry in the ROB every cycle
IndepPrograms ==
    {IndepProgram(n) : n \in 1..MaxIndep} \cup {IndepProgram(2 * robSize + 2)}

\* two operands, one of them of either sign, and one R-type operation on them
LogicPrograms ==
    {<<Instr("ADDI", 1, 0, 0, a), Instr("ADDI", 2, 0, 0, 3), Instr(op, 3, 1, 2, 0)>> :
        a \in {6, -6}, op \in {"ADD", "SUB", "AND", "OR", "XOR", "SLT"}}

\* a producer whose ADD, SUB or ADDI leaves the 32-bit range, upwards or
\* downwards, and a consumer of its result issued in a later cycle (bypass)
\* or, behind a leading NOP, in the same cycle (wake-up)
OverflowBodies ==
    {<<Instr("ADDI", 1, 0, 0, Int32Max), Instr("ADDI", 2, 1, 0, 1), Instr("ADD", 3, 2, 2, 0)>>,
     <<Instr("ADDI", 1, 0, 0, Int32Min), Instr("ADDI", 2, 1, 0, -1), Instr("ADD", 3, 2, 0, 0)>>,
     <<Instr("ADDI", 1, 0, 0, Int32Max), Instr("ADD", 2, 1, 1, 0), Instr("ADDI", 3, 2, 0, 0)>>,
     <<Instr("ADDI", 1, 0, 0, Int32Min), Instr("SUB", 2, 0, 1, 0), Instr("SUB", 3, 2, 0, 0)>>}

OverflowPrograms == OverflowBodies \cup {<<NOP>> \o body : body \in OverflowBodies}

\* a jump over one instruction, with and without a destination register, the
\* destination holding a value when the jump commits
JalPrograms ==
    {<<Instr("ADDI", 1, 0, 0, 5), Instr("JAL", rd, 0, 0, 8), Instr("ADDI", 2, 0, 0, 1),
       Instr("ADDI", 3, 1, 0, 2)>> : rd \in {0, 1}}

\* loads and stores outside main memory: the first byte address past the last
\* word, the word below address 0, and a base register near 2^31
OutsideAddrs == {4 * MemWords, -4}

OutsidePrograms ==
    UNION {{<<Instr("LW", 2, 0, 0, a), Instr("ADDI", 3, 0, 0, 1)>>,
            <<Instr("ADDI", 1, 0, 0, 7), Instr("SW", 0, 0, 1, a), Instr("ADDI", 3, 0, 0, 1)>>,
            <<Instr("ADDI", 1, 0, 0, 7), Instr("SW", 0, 0, 1, a), Instr("LW", 2, 0, 0, a)>>} :
           a \in OutsideAddrs}
        \cup {<<Instr("ADDI", 1, 0, 0, Int32Max), Instr("NOP", 0, 0, 0, 0),
                Instr("LW", 2, 1, 0, 4), Instr("SW", 0, 1, 1, 8)>>}

-----------------------------------------------------------------------------
(* Specifications: new Simulator() followed by loadProgram of one program *)

InitWith(programs) ==
    /\ instructions \in programs
    /\ memory = <<>>
    /\ regFile = [i \in 0..(NumRegs - 1) |-> 0]
    /\ pc = 0
    /\ clock = 0
    /\ rat = [i \in 0..(NumRegs - 1) |-> -1]
    /\ rob = <<>>
    /\ rsALU = initRS(NumALU)
    /\ rsLS = initRS(NumLS)
    /\ lsq = <<>>
    /\ branchCorrect = 0
    /\ branchTotal = 0
    /\ ghr = 0
    /\ pht = <<>>
    /\ instructionsCommitted = 0
    /\ nextRobTag = 1
    /\ stage = "commit"
    /\ l1d = NewCache
    /\ l1dRerun = NewCache
    /\ now = 1
    /\ nowRerun = 1
    /\ accesses = 0

Init ==
    InitWith(RegPrograms \cup MemPrograms \cup IndepPrograms \cup LogicPrograms
                 \cup OverflowPrograms \cup JalPrograms \cup OutsidePrograms)

Spec == Init /\ [][Next]_vars

-----------------------------------------------------------------------------
(* A simulator on which loadProgram is called again between two steps *)

\* a program with a store and a load, a register-only one and a counted loop
ReloadPrograms ==
    {<<Instr("ADDI", 1, 0, 0, 4), Instr("SW", 0, 0, 1, 0), Instr("LW", 2, 0, 0, 0)>>,
     <<Instr("ADDI", 1, 0, 0, 1), Instr("ADDI", 2, 1, 0, 1)>>,
     LoopProgram(2)}

\* the user loads a program (the same or another one) into the running simulator
LoadProgram ==
    /\ stage = "commit"
    /\ nextRobTag <= MaxReloadTag
    /\ instructions' \in ReloadPrograms
    /\ clock' = 0
    /\ Install(loadProgram(Cur))
    /\ stage' = "commit"

NextReload == StageCommit \/ StageExecute \/ StageFetchAndIssue \/ LoadProgram

InitReload == InitWith(ReloadPrograms)

SpecReload == InitReload /\ [][NextReload]_vars

-----------------------------------------------------------------------------
(* The data cache under the accesses of a program, in two runs *)

\* addresses of the loads: three blocks of set 0, tags 0, 1 and 2, and the
\* word below address 0
CacheAddrs == {0, BlockSize * CacheSets, 2 * BlockSize * CacheSets, -4}

\* one access() call in each run; the wall clock of each run stands still or
\* moves on before it
AccessBoth(addr, isWrite) ==
    /\ accesses < MaxAccesses
    /\ accesses' = accesses + 1
    /\ \E d \in 0..1 : \E dRerun \in 0..1 :
          /\ now + d <= MaxNow
          /\ nowRerun + dRerun <= MaxNow
          /\ now' = now + d
          /\ nowRerun' = nowRerun + dRerun
          /\ l1d' = access(l1d, addr, isWrite, now + d)
          /\ l1dRerun' = access(l1dRerun, addr, isWrite, nowRerun + dRerun)
    /\ UNCHANGED pipelineVars

\* case 'LW' of stageExecute: this.l1d.access(inst.memAddr, false)
LoadAccess == \E addr \in CacheAddrs : AccessBoth(addr, FALSE)

\* stageCommit of a SW: this.l1d.access(head.memAddr, true), where
\* head.memAddr is undefined and undefined >> 6 and undefined >> 11 are 0
StoreAccess == AccessBoth(0, TRUE)

NextCache == LoadAccess \/ StoreAccess

InitCache == InitWith({<<NOP>>})

SpecCache == InitCache /\ [][NextCache]_vars

-----------------------------------------------------------------------------
(* In-order reference: one instruction at a time, ISA semantics *)

SeqFuel == 64

SeqInit == [regs |-> [i \in 0..(NumRegs - 1) |-> 0], mem |-> <<>>, pc |-> 0]

SeqWrite(regs, rd, v) == IF rd = 0 THEN regs ELSE [regs EXCEPT ![rd] = ToInt32(v)]

SeqStep(prog, st) ==
    LET t == Template(prog, st.pc)
        a == Num(0, st.regs[t.rs1])
        b == Num(0, st.regs[t.rs2])
        addr == JsAdd(a, Num(0, t.imm))
    IN CASE t.op = "ADD" -> [st EXCEPT !.regs = SeqWrite(@, t.rd, JsAdd(a, b)), !.pc = @ + 4]
         [] t.op = "SUB" -> [st EXCEPT !.regs = SeqWrite(@, t.rd, JsSub(a, b)), !.pc = @ + 4]
         [] t.op = "ADDI" -> [st EXCEPT !.regs = SeqWrite(@, t.rd, addr), !.pc = @ + 4]
         [] t.op = "LW" -> [st EXCEPT !.regs = SeqWrite(@, t.rd, Num(0, MemoryLoad(st.mem, addr))),
                                      !.pc = @ + 4]
         [] t.op = "SW" -> [st EXCEPT !.mem = IF addr.hi = 0 THEN MemPut(@, addr.lo \div 4, b) ELSE @,
                                      !.pc = @ + 4]
         [] t.op = "BEQ" -> [st EXCEPT !.pc = IF a = b THEN @ + t.imm ELSE @ + 4]
         [] t.op = "BNE" -> [st EXCEPT !.pc = IF a # b THEN @ + t.imm ELSE @ + 4]
         [] t.op = "JAL" -> [st EXCEPT !.pc = @ + t.imm]
         [] OTHER -> [st EXCEPT !.pc = @ + 4]

RECURSIVE SeqRun(_, _, _)
\* the state in which the in-order run leaves the program, if it does within the fuel
SeqRun(prog, st, fuel) ==
    IF st.pc >= ProgramEnd(prog) THEN [halted |-> TRUE, st |-> st]
    ELSE IF fuel = 0 \/ ~HasTemplate(prog, st.pc) THEN [halted |-> FALSE, st |-> st]
    ELSE SeqRun(prog, SeqStep(prog, st), fuel - 1)

RECURSIVE SeqPcs(_, _, _)
\* the pcs of the instructions the in-order run executes, in order
SeqPcs(prog, st, fuel) ==
    IF fuel = 0 \/ ~HasTemplate(prog, st.pc) THEN <<>>
    ELSE <<st.pc>> \o SeqPcs(prog, SeqStep(prog, st), fuel - 1)

RECURSIVE SeqBefore(_, _)
\* straight-line programs: the in-order state just before instruction k
SeqBefore(prog, k) ==
    IF k = 1 THEN SeqInit ELSE SeqStep(prog, SeqBefore(prog, k - 1))

StraightLine(prog) == \A i \in 1..Len(prog) : prog[i].op \notin {"BEQ", "BNE", "JAL", "JALR"}

RegisterOnly(prog) ==
    \A i \in 1..Len(prog) : prog[i].op \in {"ADD", "SUB", "ADDI", "BEQ", "BNE", "NOP"}

AllRS == rsALU \o rsLS

\* this commit stage retires the ROB head as a committed instruction
CommitsHead == stage = "commit" /\ instructionsCommitted' = instructionsCommitted + 1

\* the ROB head is a branch that stageCommit finds mispredicted
HeadMispredicted ==
    /\ rob # <<>>
    /\ Head(rob).isReady
    /\ IsBranch(Head(rob).op)
    /\ (Head(rob).result = 1) # Head(rob).predictedTaken

\* instructions retired so far: committed ones and mispredicted branches
Retired == instructionsCommitted + (branchTotal - branchCorrect)

-----------------------------------------------------------------------------
(* C1..C10 *)

\* C1: when stageCommit commits a SW, main memory afterwards holds the store's
\* data (the value of rs2 the store captured) at the store's effective address
\* (rs1 + imm, as recorded in its LSQ entry), for every word-aligned in-range
\* address.
C1_CommittedStoreIsInMemory ==
    [][(CommitsHead /\ Head(rob).op = "SW")
        => LET e == Head(lsq)
           IN (/\ e.memAddrHi = 0
               /\ (e.memAddr % 4) = 0
               /\ (e.memAddr \div 4) \in 0..(MemWords - 1))
              => MemRead(memory', e.memAddr \div 4) = ToInt32(Num(e.valueHi, e.value))]_vars

\* C2: in a program without branches, when a LW commits whose address was
\* stored to by an earlier SW (the last such SW, so no other store to the
\* address lies between), the destination register receives the value the
\* stored register had for that SW in program order.
C2_StoreThenLoadRoundTrip ==
    [][(CommitsHead /\ Head(rob).op = "LW" /\ StraightLine(instructions))
        => LET j == Head(rob).robTag
               ld == instructions[j]
               A == SeqBefore(instructions, j).regs[ld.rs1] + ld.imm
               stores == {i \in 1..(j - 1) :
                            /\ instructions[i].op = "SW"
                            /\ SeqBefore(instructions, i).regs[instructions[i].rs1]
                                 + instructions[i].imm = A}
           IN (stores # {} /\ (A % 4) = 0 /\ ld.rd # 0)
              => LET i == CHOOSE x \in stores : \A y \in stores : y <= x
                 IN regFile'[ld.rd] = SeqBefore(instructions, i).regs[instructions[i].rs2]]_vars

\* C3: a LW has performed its memory read (its ROB entry is ready) only when
\* no older SW is still live in the ROB.
C3_LoadReadsAfterOlderStoresCommit ==
    \A i \in 1..Len(rob) : \A j \in 1..Len(rob) :
        (i < j /\ rob[i].op = "SW" /\ rob[j].op = "LW") => ~rob[j].isReady

\* C4: main memory changes only in a stageCommit that commits a SW from the
\* ROB head; no execute, issue or flush changes it.
C4_MemoryChangesOnlyAtStoreCommit ==
    [][memory' # memory => (CommitsHead /\ rob # <<>> /\ Head(rob).op = "SW")]_vars

\* a SW executed speculatively (its LSQ entry holds address and a non-zero
\* value) was discarded by a flush, and memory is still all zero
C4_Witness ==
    /\ stage = "execute"
    /\ rob = <<>>
    /\ branchTotal > branchCorrect
    /\ \E i \in 1..Len(lsq) : lsq[i].isStore /\ lsq[i].isMemReady /\ lsq[i].value # 0
    /\ memory = <<>>

\* C5: when step() finds a register-only program finished, the register file
\* equals the one the in-order reference computes.
C5_SequentialEquivalence ==
    (stage = "commit" /\ Finished /\ RegisterOnly(instructions)
        /\ SeqRun(instructions, SeqInit, SeqFuel).halted)
    => regFile = SeqRun(instructions, SeqInit, SeqFuel).st.regs

\* a finished run that flushed on a mispredict, predicted another branch
\* correctly and left a register non-zero
C5_Witness ==
    /\ stage = "commit"
    /\ Finished
    /\ branchTotal > branchCorrect
    /\ branchCorrect > 0
    /\ \E r \in 1..(NumRegs - 1) : regFile[r] # 0

\* C6: only instructions on the path the branches actually take are committed:
\* whenever a commit stage writes the register file or counts a committed
\* instruction, the instruction is the ROB head and it is the next instruction
\* of the in-order run (so nothing issued after a mispredicted branch, down
\* the path not taken, ever does either).
C6_WrongPathNeverCommits ==
    [][(stage = "commit"
          /\ (regFile' # regFile \/ instructionsCommitted' # instructionsCommitted))
        => LET path == SeqPcs(instructions, SeqInit, SeqFuel)
           IN /\ rob # <<>>
              /\ Retired + 1 <= Len(path)
              /\ Head(rob).pc = path[Retired + 1]]_vars

\* a finished run in which a mispredict flushed issued instructions: more
\* instructions were issued than were retired
C6_Witness ==
    /\ stage = "commit"
    /\ Finished
    /\ branchTotal > branchCorrect
    /\ nextRobTag - 1 > Retired

\* C7: progress. Necessary for it: no cycle boundary with the program
\* unfinished is a fixed point of step() (the simulator is deterministic, so
\* from such a state nothing but the clock ever changes again).
C7_NoStuckState ==
    ~(stage = "commit" /\ ~Finished /\ StepOf(Cur) = Cur)

\* C8: load-use in a program without branches (tag k is instruction k): an
\* instruction that reads the register written by the LW just before it has
\* not started while the load's ROB entry is not ready, and while it still
\* waits for the load's tag the load is live in the ROB, so that it can obtain
\* the value.
C8_LoadUse ==
    StraightLine(instructions) =>
    \A n \in 1..Len(AllRS) :
        LET rs == AllRS[n] IN
        (/\ rs.busy
         /\ rs.robTag >= 2
         /\ instructions[rs.robTag - 1].op = "LW"
         /\ instructions[rs.robTag - 1].rd # 0
         /\ instructions[rs.robTag - 1].rd \in {rs.inst.rs1, rs.inst.rs2})
        => LET ld == rs.robTag - 1
               i == RobFind(rob, ld)
           IN /\ (i # 0 /\ ~rob[i].isReady)
                    => rs.inst.executionCyclesLeft = rs.inst.totalCycles
              /\ (rs.qj = ld \/ rs.qk = ld) => i # 0

\* C9: x0 is never written or renamed, and an operand read from x0 is the
\* value 0.
C9_X0Invariance ==
    /\ regFile[0] = 0
    /\ rat[0] = -1
    /\ \A n \in 1..Len(AllRS) :
          AllRS[n].busy =>
              /\ AllRS[n].inst.rs1 = 0 => (AllRS[n].qj = -1 /\ AllRS[n].vj = 0)
              /\ AllRS[n].inst.rs2 = 0 => (AllRS[n].qk = -1 /\ AllRS[n].vk = 0)

\* an ADDI with destination x0 and a non-zero result has just been committed
C9_Witness ==
    /\ stage = "execute"
    /\ instructionsCommitted = 1
    /\ instructions[1].op = "ADDI"
    /\ instructions[1].rd = 0
    /\ instructions[1].imm # 0

\* C10: a commit stage that finds a mispredicted branch at the ROB head leaves
\* the ROB empty, every reservation station free, every RAT entry
\* architectural, and PC at the branch's actual successor.
C10_FlushPostcondition ==
    [][(stage = "commit" /\ HeadMispredicted)
        => LET head == Head(rob) IN
           /\ rob' = <<>>
           /\ \A n \in 1..NumALU : ~rsALU'[n].busy
           /\ \A n \in 1..NumLS : ~rsLS'[n].busy
           /\ \A r \in 0..(NumRegs - 1) : rat'[r] = -1
           /\ pc' = IF head.result = 1
                    THEN head.pc + Template(instructions, head.pc).imm
                    ELSE head.pc + 4]_vars

\* right after a flush (every station is as initRS leaves it) whose branch was
\* predicted taken and was not taken
C10_Witness ==
    /\ stage = "execute"
    /\ clock > 1
    /\ rob = <<>>
    /\ rsALU = initRS(NumALU)
    /\ branchTotal > branchCorrect
    /\ (ghr % 2) = 0

-----------------------------------------------------------------------------
(* C11..C20 *)

\* C11: a commit stage that flushes (a mispredicted branch at the ROB head)
\* leaves the load/store queue empty.
C11_FlushEmptiesLsq ==
    [][(stage = "commit" /\ HeadMispredicted) => lsq' = <<>>]_vars

\* C12: at the end of every cycle, each operand tag a busy reservation station
\* still waits for (qj or qk other than -1) is the tag of an entry that is in
\* the ROB.
C12_OperandTagsAreLive ==
    stage = "commit" =>
        \A n \in 1..Len(AllRS) :
            AllRS[n].busy =>
                /\ AllRS[n].qj # -1 => RobFind(rob, AllRS[n].qj) # 0
                /\ AllRS[n].qk # -1 => RobFind(rob, AllRS[n].qk) # 0

\* the ROB entry writes a register at commit (not SW, not a branch, rd # 0)
WritesRegister(e, r) == e.rd = r /\ r # 0 /\ e.op # "SW" /\ ~IsBranch(e.op)

\* C13: whenever RAT[r] is a tag, an entry with that tag is in the ROB, its rd
\* is r, and no entry of the ROB that writes r has a larger tag.
C13_RatConsistency ==
    \A r \in 0..(NumRegs - 1) :
        rat[r] # -1 =>
            LET k == RobFind(rob, rat[r])
            IN /\ k # 0
               /\ rob[k].rd = r
               /\ \A m \in 1..Len(rob) : WritesRegister(rob[m], r) => rob[m].robTag <= rat[r]

\* two entries of the ROB write x1 under different tags, the older one is not
\* the one the RAT names, and an older writer of x1 has already committed
C13_Witness ==
    /\ rat[1] # -1
    /\ instructionsCommitted > 0
    /\ \E m \in 1..Len(rob) : \E n \in 1..Len(rob) :
          /\ m < n
          /\ WritesRegister(rob[m], 1)
          /\ WritesRegister(rob[n], 1)
          /\ rob[n].robTag = rat[1]
          /\ rob[m].robTag # rat[1]

\* C14: every step leaves the tags in the ROB strictly increasing from head to
\* tail and all below the next tag to allocate, and no two RAT entries naming
\* the same tag (the initial ROB is empty); the allocation counter never
\* decreases, and every entry an issue stage appends carries a tag that was
\* not allocated before (also after a flush).
C14_TagIdentity ==
    [][/\ \A i \in 1..Len(rob') : \A j \in 1..Len(rob') :
             i < j => rob'[i].robTag < rob'[j].robTag
       /\ \A i \in 1..Len(rob') : rob'[i].robTag < nextRobTag'
       /\ \A r \in 0..(NumRegs - 1) : \A q \in 0..(NumRegs - 1) :
             (r # q /\ rat'[r] # -1) => rat'[r] # rat'[q]
       /\ nextRobTag' >= nextRobTag
       /\ stage = "issue" =>
             /\ Len(rob') >= Len(rob)
             /\ nextRobTag' = nextRobTag + (Len(rob') - Len(rob))
             /\ \A i \in (Len(rob) + 1)..Len(rob') : rob'[i].robTag >= nextRobTag]_vars

\* after a flush that discarded issued instructions, two new entries are in
\* the ROB, one of them named by the RAT
C14_Witness ==
    /\ branchTotal > branchCorrect
    /\ nextRobTag - 1 > Retired + Len(rob)
    /\ Len(rob) >= 2
    /\ \E r \in 1..(NumRegs - 1) : rat[r] # -1

RECURSIVE MemoryTags(_)
\* the tags of the LW/SW entries of a ROB, head to tail
MemoryTags(robSeq) ==
    IF robSeq = <<>> THEN <<>>
    ELSE (IF IsLS(Head(robSeq).op) THEN <<Head(robSeq).robTag>> ELSE <<>>)
            \o MemoryTags(Tail(robSeq))

\* C15: at the end of every cycle the tags of the LSQ entries, head to tail,
\* are the tags of the LW/SW entries of the ROB, head to tail.
C15_LsqOrderIsRobOrder ==
    stage = "commit" => [i \in 1..Len(lsq) |-> lsq[i].robTag] = MemoryTags(rob)

\* instructions issued since reset, not committed and not in the ROB
Discarded == (nextRobTag - 1) - instructionsCommitted - Len(rob)

\* C16 as stated: at the end of every cycle, committed count plus the number
\* of ROB entries is the number of instructions issued since reset (one tag
\* is allocated per issued instruction, starting at 1).
C16_Conservation ==
    stage = "commit" => instructionsCommitted + Len(rob) = nextRobTag - 1

\* C16 amended: committed count plus ROB entries plus the entries discarded by
\* flushes is the number issued. The difference is zero at reset, and it
\* changes only in a commit stage that flushes, which adds to it the entries
\* the ROB held (the mispredicted branch among them).
C16_ConservationWithFlushes ==
    [][Discarded' = Discarded
            + (IF stage = "commit" /\ HeadMispredicted THEN Len(rob) ELSE 0)]_vars

\* a flush has discarded the branch and at least one instruction behind it,
\* and after it instructions were issued and one has committed
C16_Witness ==
    /\ Discarded >= 2
    /\ rob # <<>>
    /\ instructionsCommitted >= 2
    /\ branchTotal - branchCorrect = 1

\* C17: an entry leaves the ROB by commit only from the head and only when it
\* is ready: a commit stage that counts a committed instruction removes
\* exactly the head, whose tag is below the tag of every entry that stays and
\* of every entry allocated later (so committed tags increase strictly over
\* the run, and a consumer, issued after its producer, commits after it);
\* any other change of the ROB in a commit stage is the flush.
C17_InOrderCommit ==
    [][stage = "commit" =>
         /\ CommitsHead =>
               /\ rob # <<>>
               /\ Head(rob).isReady
               /\ rob' = Tail(rob)
               /\ \A i \in 1..Len(rob') : Head(rob).robTag < rob'[i].robTag
               /\ Head(rob).robTag < nextRobTag'
         /\ (rob' # rob /\ ~CommitsHead) => (HeadMispredicted /\ rob' = <<>>)
         /\ instructionsCommitted' # instructionsCommitted => CommitsHead]_vars

\* a consumer that was issued in the same cycle as its producer and executed
\* in the same cycle is at the head, ready, right after the producer committed
C17_Witness ==
    /\ stage = "execute"
    /\ instructionsCommitted = 1
    /\ instructions[1].op = "ADDI"
    /\ instructions[1].rd = 1
    /\ Len(instructions) >= 2
    /\ instructions[2].op = "ADDI"
    /\ instructions[2].rs1 = 1
    /\ rob # <<>>
    /\ Head(rob).robTag = 2
    /\ Head(rob).isReady

\* C18: the ROB never holds more than robSize entries, and with a full ROB
\* stageFetchAndIssue changes nothing (ROB, stations, LSQ, RAT, PC, tag
\* counter), whatever the instruction at PC is.
C18_RobCapacity ==
    /\ Len(rob) <= robSize
    /\ Len(rob) = robSize => stageFetchAndIssue(Cur) = Cur

\* the issue loop has stopped at a full ROB with an instruction at PC and a
\* free station for it, and the head is ready, so the next commit makes room
C18_Witness ==
    /\ stage = "commit"
    /\ Len(rob) = robSize
    /\ HasTemplate(instructions, pc)
    /\ FirstFree(rsALU) # 0
    /\ Head(rob).isReady

\* C19: one step() (its commit, execute and issue stages) appends at most
\* `width` entries to the ROB, all of them in the issue stage, allocating at
\* most `width` tags, and raises the committed count by at most one, in the
\* commit stage.
C19_PerCycleWidth ==
    [][/\ stage = "issue" =>
             /\ Len(rob') <= Len(rob) + width
             /\ nextRobTag' <= nextRobTag + width
       /\ stage # "issue" =>
             /\ Len(rob') <= Len(rob)
             /\ nextRobTag' = nextRobTag
       /\ instructionsCommitted' <= instructionsCommitted + 1
       /\ stage # "commit" => instructionsCommitted' = instructionsCommitted]_vars

\* the third cycle, which committed one instruction and issued two as the two
\* cycles before it did, has ended with a further instruction at PC, a free
\* station for it and room in the ROB, and a ready entry at the head behind
\* the committed one
C19_Witness ==
    /\ stage = "commit"
    /\ clock = 3
    /\ instructionsCommitted = 1
    /\ nextRobTag = 3 * width + 1
    /\ HasTemplate(instructions, pc)
    /\ CanIssue(Cur)
    /\ Len(rob) >= 2
    /\ rob[1].isReady

\* a straight-line program of independent ADDIs: every source is x0
IndependentAddis(prog) ==
    \A i \in 1..Len(prog) : prog[i].op = "ADDI" /\ prog[i].rs1 = 0

Min(a, b) == IF a <= b THEN a ELSE b

Max(a, b) == IF a >= b THEN a ELSE b

\* C20 as stated: IPC `width` in steady state. A cycle count of N/2 plus a
\* constant for every N means that, once the pipeline is full, every further
\* cycle commits `width` instructions: a commit stage that finds `width` ready
\* entries at the head of the ROB commits them all.
C20_IpcApproachesWidth ==
    [][(/\ stage = "commit"
        /\ IndependentAddis(instructions)
        /\ Len(rob) >= width
        /\ \A i \in 1..width : rob[i].isReady)
       => instructionsCommitted' = instructionsCommitted + width]_vars

\* C20 amended: IPC approaches 1. Running N independent ADDIs, the first
\* instruction commits in cycle 3 and one more in every cycle after it, so
\* the committed count in cycle c is c - 2 (from 0, up to N), and the run is
\* finished after exactly N + 2 cycles.
C20_IpcApproachesOne ==
    IndependentAddis(instructions) =>
        /\ instructionsCommitted = Min(Len(instructions), Max(0, clock - 2))
        /\ (stage = "commit" /\ Finished) => clock = Len(instructions) + 2

\* a run of at least eight independent ADDIs has finished
C20_Witness ==
    /\ stage = "commit"
    /\ Finished
    /\ IndependentAddis(instructions)
    /\ Len(instructions) >= 8
    /\ instructionsCommitted = Len(instructions)

-----------------------------------------------------------------------------
(* C21..C30 *)

\* C21: the first branch a freshly constructed simulator brings to commit, if
\* its condition holds (result 1), was predicted not-taken, and its commit
\* stage flushes (the ROB is emptied, nothing is counted as committed) and
\* leaves branchTotal = 1 and branchCorrect = 0; it is the only flush so far.
C21_FirstTakenBranchMispredicts ==
    [][(/\ stage = "commit"
        /\ branchTotal = 0
        /\ rob # <<>>
        /\ Head(rob).isReady
        /\ IsBranch(Head(rob).op)
        /\ Head(rob).result = 1)
       => /\ ~Head(rob).predictedTaken
          /\ rob' = <<>>
          /\ pc' = Head(rob).pc + Template(instructions, Head(rob).pc).imm
          /\ instructionsCommitted' = instructionsCommitted
          /\ branchTotal' = 1
          /\ branchCorrect' = 0]_vars

\* the mispredict scenario has run to its end: ADDI x3 was skipped, x4 = 7,
\* one branch, none predicted correctly
C21_Witness ==
    /\ stage = "commit"
    /\ Finished
    /\ branchTotal = 1
    /\ branchCorrect = 0
    /\ regFile[3] = 0
    /\ regFile[4] = 7

\* the program has exactly one branch instruction
OneBranch(prog) == Cardinality({i \in 1..Len(prog) : IsBranch(prog[i].op)}) = 1

\* commits after which the history register holds only taken bits and the
\* counter it then selects has been raised once
ConvergeAfter == GhrBits + 1

\* C22: in a program whose only branch is taken at every execution but the
\* last (a loop back-edge), once ConvergeAfter executions of it have
\* committed, every later issue of the branch is predicted taken, and every
\* later commit of it that is taken is counted correct and does not flush.
C22_PredictorConverges ==
    [][(OneBranch(instructions) /\ branchTotal >= ConvergeAfter) =>
         /\ stage = "issue" =>
               \A i \in (Len(rob) + 1)..Len(rob') :
                   IsBranch(rob'[i].op) => rob'[i].predictedTaken
         /\ (/\ stage = "commit"
             /\ rob # <<>>
             /\ Head(rob).isReady
             /\ IsBranch(Head(rob).op)
             /\ Head(rob).result = 1)
            => /\ rob' = Tail(rob)
               /\ branchCorrect' = branchCorrect + 1
               /\ instructionsCommitted' = instructionsCommitted + 1]_vars

\* three executions of the back-edge have been predicted correctly, and two
\* more, predicted taken, are in the ROB
C22_Witness ==
    /\ OneBranch(instructions)
    /\ branchCorrect >= 3
    /\ branchTotal = branchCorrect + ConvergeAfter
    /\ Cardinality({i \in 1..Len(rob) : IsBranch(rob[i].op) /\ rob[i].predictedTaken}) >= 2

\* C23: two runs that make the same sequence of cache accesses show the same
\* access, hit and miss counters after every access.
C23_Deterministic ==
    /\ l1d.accessCount = l1dRerun.accessCount
    /\ l1d.hitCount = l1dRerun.hitCount
    /\ l1d.missCount = l1dRerun.missCount

\* C24: the stages of a cycle do not see each other's work.
\* Commit, first in the cycle, retires only an entry that was already ready
\* when the cycle began, and executes nothing: the entries that stay keep
\* their ready flags and the busy stations their countdown. Execute neither
\* removes nor adds entries and commits nothing, so a result it broadcasts is
\* still in the ROB when the cycle ends. Issue, last in the cycle, leaves
\* the older entries and stations as they are, and what it issues ends the
\* cycle not ready, with its full countdown.
C24_StagesAreLatched ==
    [][/\ stage = "commit" =>
             /\ CommitsHead => (rob # <<>> /\ Head(rob).isReady)
             /\ rob' # <<>> => (rob' = rob \/ rob' = Tail(rob))
             /\ \A n \in 1..Len(AllRS) : AllRS'[n].busy => AllRS'[n] = AllRS[n]
       /\ stage = "execute" =>
             /\ [i \in 1..Len(rob') |-> rob'[i].robTag] = [i \in 1..Len(rob) |-> rob[i].robTag]
             /\ instructionsCommitted' = instructionsCommitted
       /\ stage = "issue" =>
             /\ Len(rob') >= Len(rob)
             /\ SubSeq(rob', 1, Len(rob)) = rob
             /\ instructionsCommitted' = instructionsCommitted
             /\ \A i \in (Len(rob) + 1)..Len(rob') : ~rob'[i].isReady
             /\ \A n \in 1..Len(AllRS) :
                   /\ AllRS[n].busy => AllRS'[n] = AllRS[n]
                   /\ (AllRS'[n].busy /\ ~AllRS[n].busy) =>
                         /\ AllRS'[n].robTag >= nextRobTag
                         /\ ~AllRS'[n].inst.isReady
                         /\ AllRS'[n].inst.executionCyclesLeft = AllRS'[n].inst.totalCycles]_vars

\* the execute stage of cycle 2 has broadcast the result of the instruction
\* issued in cycle 1: it is ready at the head and not committed in this cycle
C24_Witness ==
    /\ stage = "issue"
    /\ clock = 2
    /\ nextRobTag = width + 1
    /\ instructionsCommitted = 0
    /\ Len(rob) = width
    /\ Head(rob).isReady

\* C25: a step() whose commit stage finds a mispredicted branch at the ROB
\* head updates the predictor with the actual direction and returns with the
\* ROB empty and every reservation station free.
C25_MispredictAbortsCycle ==
    (stage = "commit" /\ ~Finished /\ HeadMispredicted) =>
        LET after == StepOf(Cur)
            head == Head(rob)
        IN /\ after.ghr = update(Cur, head.pc, head.result = 1).ghr
           /\ after.pht = update(Cur, head.pc, head.result = 1).pht
           /\ after.rob = <<>>
           /\ after.rsALU = initRS(NumALU)
           /\ after.rsLS = initRS(NumLS)

\* C26: a commit stage that flushes leaves the register file, main memory and
\* the committed count as they were, and the predictor as update() left it
\* just before the flush: the history register and every counter keep the
\* update for the mispredicted branch and all earlier ones.
C26_FlushFrame ==
    [][(stage = "commit" /\ HeadMispredicted) =>
         LET head == Head(rob)
             updated == update(Cur, head.pc, head.result = 1)
         IN /\ regFile' = regFile
            /\ memory' = memory
            /\ instructionsCommitted' = instructionsCommitted
            /\ ghr' = updated.ghr
            /\ pht' = updated.pht]_vars

\* right after a flush for a taken branch: the history register ends in the
\* taken bit, a counter has left its initial value, a committed register is
\* non-zero
C26_Witness ==
    /\ stage = "execute"
    /\ rob = <<>>
    /\ branchTotal > branchCorrect
    /\ (ghr % 2) = 1
    /\ pht # <<>>
    /\ instructionsCommitted >= 1
    /\ \E r \in 1..(NumRegs - 1) : regFile[r] # 0

\* the LSQ head is the entry of the ROB head, with its address (and value) ready
LsqHeadMatches ==
    /\ lsq # <<>>
    /\ rob # <<>>
    /\ Head(lsq).robTag = Head(rob).robTag
    /\ Head(lsq).isMemReady

\* C27: a LW or SW is committed only when the LSQ head has its tag and is
\* ready; a commit stage that finds a ready LW or SW at the ROB head without
\* that stalls, and leaves the ROB, the LSQ, the register file, the RAT, main
\* memory and the committed count unchanged.
C27_MemoryCommitGating ==
    [][(stage = "commit" /\ rob # <<>> /\ Head(rob).isReady /\ IsLS(Head(rob).op)) =>
         /\ CommitsHead => LsqHeadMatches
         /\ ~LsqHeadMatches =>
               /\ rob' = rob
               /\ lsq' = lsq
               /\ regFile' = regFile
               /\ rat' = rat
               /\ memory' = memory
               /\ instructionsCommitted' = instructionsCommitted]_vars

\* C28: when an instruction that writes a register (rd # 0, not SW, not a
\* branch) commits, regFile[rd] becomes its result (as the Int32Array stores
\* it) and no other register changes; RAT[rd] becomes architectural if it
\* named the committing tag and keeps its value otherwise, and no other RAT
\* entry changes.
C28_RegisterCommit ==
    [][(CommitsHead /\ rob # <<>> /\ WritesRegister(Head(rob), Head(rob).rd)) =>
         LET head == Head(rob) IN
         /\ regFile' = [regFile EXCEPT ![head.rd] = ToInt32(Num(head.resultHi, head.result))]
         /\ rat' = [rat EXCEPT ![head.rd] = IF rat[head.rd] = head.robTag THEN -1 ELSE @]]_vars

\* a writer of x1 has just committed a non-zero value while a younger writer
\* of x1 is in the ROB: the RAT still names the younger one
C28_Witness ==
    /\ stage = "execute"
    /\ instructionsCommitted >= 1
    /\ regFile[1] # 0
    /\ rat[1] # -1
    /\ RobFind(rob, rat[1]) # 0
    /\ instructions[1].rd = 1
    /\ clock = 3

\* operand (q, v) is what the claim says for source register r read in state s
OperandAsClaimed(s, r, q, v) ==
    IF s.rat[r] = -1 THEN q = -1 /\ v = Num(0, s.regFile[r])
    ELSE LET i == RobFind(s.rob, s.rat[r])
         IN IF i # 0 /\ s.rob[i].isReady
            THEN q = -1 /\ v = Num(s.rob[i].resultHi, s.rob[i].result)
            ELSE q = s.rat[r]

\* the station filled by issuing the instruction at s.pc from state s holds
\* its two operands as claimed
IssuesAsClaimed(s) ==
    LET t == Template(instructions, s.pc)
        after == IssueOne(s)
        pool == IF IsLS(t.op) THEN after.rsLS ELSE after.rsALU
        n == CHOOSE k \in 1..Len(pool) : pool[k].busy /\ pool[k].robTag = s.nextRobTag
    IN /\ \E k \in 1..Len(pool) : pool[k].busy /\ pool[k].robTag = s.nextRobTag
       /\ OperandAsClaimed(s, t.rs1, pool[n].qj, Num(pool[n].vjHi, pool[n].vj))
       /\ OperandAsClaimed(s, t.rs2, pool[n].qk, Num(pool[n].vkHi, pool[n].vk))

\* C29: for the first and for the second instruction an issue stage issues,
\* each source operand is the register file's value when the RAT entry is
\* architectural, the producer's result (and no tag) when the producer's ROB
\* entry is ready, and the RAT's tag otherwise; and no busy station that
\* still holds an operand tag has begun its countdown.
C29_RenameAtIssue ==
    /\ (stage = "issue" /\ CanIssue(Cur)) =>
           /\ IssuesAsClaimed(Cur)
           /\ CanIssue(IssueOne(Cur)) => IssuesAsClaimed(IssueOne(Cur))
    /\ \A n \in 1..Len(AllRS) :
           (AllRS[n].busy /\ (AllRS[n].qj # -1 \/ AllRS[n].qk # -1)) =>
               /\ AllRS[n].inst.executionCyclesLeft = AllRS[n].inst.totalCycles
               /\ ~AllRS[n].inst.isReady

\* at the end of a cycle one station holds a value bypassed from a producer
\* that is ready in the ROB and not yet committed (the register file still
\* has another value), and another station waits for a tag
C29_Witness ==
    /\ stage = "commit"
    /\ \E n \in 1..Len(AllRS) :
          /\ AllRS[n].busy
          /\ AllRS[n].qk = -1
          /\ AllRS[n].inst.rs2 = 1
          /\ AllRS[n].vk # regFile[1]
          /\ \E i \in 1..Len(rob) :
                rob[i].rd = 1 /\ rob[i].isReady /\ rob[i].result = AllRS[n].vk
    /\ \E m \in 1..Len(AllRS) : AllRS[m].busy /\ AllRS[m].qj # -1

RECURSIVE RefAnd(_, _)
\* a & b on two's-complement integers
RefAnd(a, b) ==
    IF a = 0 \/ b = 0 THEN 0
    ELSE IF a = -1 THEN b
    ELSE IF b = -1 THEN a
    ELSE ((a % 2) * (b % 2)) + 2 * RefAnd(a \div 2, b \div 2)

RECURSIVE RefXor(_, _)
\* a ^ b on two's-complement integers
RefXor(a, b) ==
    IF a = 0 THEN b
    ELSE IF b = 0 THEN a
    ELSE IF a = -1 THEN (0 - b) - 1
    ELSE IF b = -1 THEN (0 - a) - 1
    ELSE (((a % 2) + (b % 2)) % 2) + 2 * RefXor(a \div 2, b \div 2)

\* a | b = (a ^ b) + (a & b)
RefOr(a, b) == RefXor(a, b) + RefAnd(a, b)

\* the ISA result of an ALU operation
RefAlu(op, a, b, imm) ==
    CASE op = "ADD" -> ToInt32(JsAdd(Num(0, a), Num(0, b)))
      [] op = "SUB" -> ToInt32(JsSub(Num(0, a), Num(0, b)))
      [] op = "ADDI" -> ToInt32(JsAdd(Num(0, a), Num(0, imm)))
      [] op = "AND" -> RefAnd(a, b)
      [] op = "OR" -> RefOr(a, b)
      [] op = "XOR" -> RefXor(a, b)
      [] op = "SLT" -> IF a < b THEN 1 ELSE 0

\* C30: every station that has completed an ADD, SUB, AND, OR, XOR, SLT or
\* ADDI holds as the instruction's result the 32-bit two's-complement result
\* of the operation on the operand values it captured.
C30_AluResults ==
    \A n \in 1..Len(AllRS) :
        LET rs == AllRS[n] IN
        (/\ "inst" \in DOMAIN rs
         /\ rs.inst.isReady
         /\ rs.inst.op \in {"ADD", "SUB", "AND", "OR", "XOR", "SLT", "ADDI"})
        => /\ rs.inst.resultHi = 0
           /\ rs.inst.result = RefAlu(rs.inst.op, rs.vj, rs.vk, rs.inst.imm)

-----------------------------------------------------------------------------
(* C31..C37 *)

\* the value the register file receives when the ROB entry commits
CommittedValue(entry) == Num(0, ToInt32(Num(entry.resultHi, entry.result)))

\* the ready ROB entry that produces tag q, 0 when there is none
ReadyProducer(robSeq, q) ==
    LET i == RobFind(robSeq, q)
    IN IF q # -1 /\ i # 0 /\ robSeq[i].isReady THEN i ELSE 0

\* C31: a value forwarded through the ROB is the 32-bit value the producer
\* commits: at issue, an operand bypassed from a ready ROB entry equals the
\* value that entry writes to the register file; at execute, an operand a
\* waiting station captures from a ready ROB entry equals it too.
C31_ForwardedValueIsCommittedValue ==
    /\ (stage = "issue" /\ CanIssue(Cur)) =>
           \A r \in {Template(instructions, pc).rs1, Template(instructions, pc).rs2} :
               ReadyProducer(rob, rat[r]) # 0 =>
                   Rename(Cur, r).v = CommittedValue(rob[ReadyProducer(rob, rat[r])])
    /\ \A n \in 1..Len(AllRS) :
           AllRS[n].busy =>
               /\ ReadyProducer(rob, AllRS[n].qj) # 0 =>
                      WakeUp(rob, AllRS[n].qj, Num(AllRS[n].vjHi, AllRS[n].vj)).v
                          = CommittedValue(rob[ReadyProducer(rob, AllRS[n].qj)])
               /\ ReadyProducer(rob, AllRS[n].qk) # 0 =>
                      WakeUp(rob, AllRS[n].qk, Num(AllRS[n].vkHi, AllRS[n].vk)).v
                          = CommittedValue(rob[ReadyProducer(rob, AllRS[n].qk)])

\* (pc XOR GHR) & 0x3FF
GshareIndex(p, g) == RefXor(p % PhtSize, g)

\* the counter after an update, saturating at 3 and 0
Saturating(c, taken) == IF taken THEN Min(c + 1, 3) ELSE Max(c - 1, 0)

\* every counter is in 0..3 and the history in 0..1023
PredictorInRange(table, g) ==
    /\ g \in 0..(PhtSize - 1)
    /\ \A i \in DOMAIN table : i \in 0..(PhtSize - 1) /\ table[i] \in 0..3

\* C32: gshare. Every branch is issued with predictedTaken true iff the
\* counter at (pc XOR GHR) & 0x3FF is at least 2; the commit of a branch
\* moves that counter one up (taken) or down (not taken), saturating at 3 and
\* 0, leaves the other counters alone and shifts the outcome into GHR; every
\* counter stays in 0..3 and GHR in 0..1023, and every counter starts at 1.
C32_GshareSemantics ==
    [][/\ clock = 0 => (ghr = 0 /\ \A i \in 0..(PhtSize - 1) : PhtGet(pht, i) = 1)
       /\ PredictorInRange(pht, ghr)
       /\ PredictorInRange(pht', ghr')
       /\ stage = "issue" =>
              \A i \in (Len(rob) + 1)..Len(rob') :
                  IsBranch(rob'[i].op) =>
                      (rob'[i].predictedTaken
                          <=> PhtGet(pht, GshareIndex(rob'[i].pc, ghr)) >= 2)
       /\ (stage = "commit" /\ rob # <<>> /\ Head(rob).isReady /\ IsBranch(Head(rob).op)) =>
              LET taken == Head(rob).result = 1
                  index == GshareIndex(Head(rob).pc, ghr)
              IN /\ \A i \in 0..(PhtSize - 1) :
                        PhtGet(pht', i) = IF i = index
                                          THEN Saturating(PhtGet(pht, i), taken)
                                          ELSE PhtGet(pht, i)
                 /\ ghr' = (2 * ghr + (IF taken THEN 1 ELSE 0)) % PhtSize]_vars

\* a taken branch is about to commit while its counter is already at 3 and the
\* history is all ones; it was issued predicted taken
C32_Witness ==
    /\ stage = "commit"
    /\ rob # <<>>
    /\ Head(rob).isReady
    /\ IsBranch(Head(rob).op)
    /\ Head(rob).result = 1
    /\ Head(rob).predictedTaken
    /\ ghr = PhtSize - 1
    /\ PhtGet(pht, GshareIndex(Head(rob).pc, ghr)) = 3

\* the second run as a recorder of access times: when its wall clock has
\* moved on before every access so far, the lru field of the line that holds
\* a tag is the ordinal of the last access to that tag
RerunRecordsOrder == nowRerun = accesses + 1

\* the time of the most recent access to the line with this tag
LastUse(index, tag) ==
    l1dRerun.tags[index][HitWay(l1dRerun.tags[index], tag)].lru

\* C33: on a miss in a set whose two ways hold valid lines, the way that is
\* replaced is the one whose most recent access (hit or fill) is the older.
C33_TrueLru ==
    [][\A index \in 0..(CacheSets - 1) :
          LET set == l1d.tags[index]
              after == l1d'.tags[index]
          IN (/\ RerunRecordsOrder
              /\ \A w \in 1..CacheWays : set[w].tag # -1
              /\ \A w \in 1..CacheWays : HitWay(l1dRerun.tags[index], set[w].tag) # 0
              /\ l1d'.missCount = l1d.missCount + 1
              /\ after # set)
             => \A w \in 1..CacheWays :
                    after[w] # set[w] =>
                        \A v \in (1..CacheWays) \ {w} :
                            LastUse(index, set[w].tag) < LastUse(index, set[v].tag)]_vars

\* C34: invalid lines never match. An access that touches a set in which
\* nothing has been filled yet (so also the first access to a new cache) is a
\* miss, whatever the address.
C34_InvalidLinesNeverMatch ==
    [][\A index \in 0..(CacheSets - 1) :
          (/\ \A w \in 1..CacheWays : l1d.tags[index][w] = InvalidLine
           /\ l1d'.tags[index] # l1d.tags[index])
          => /\ l1d'.missCount = l1d.missCount + 1
             /\ l1d'.hitCount = l1d.hitCount]_vars

\* C35: JAL. After a JAL is issued the next instruction is fetched at the
\* JAL's pc + imm, and the commit of a JAL leaves the register file as it was.
C35_Jal ==
    [][/\ stage = "issue" =>
              \A i \in (Len(rob) + 1)..Len(rob') :
                  rob'[i].op = "JAL" =>
                      (IF i < Len(rob') THEN rob'[i + 1].pc ELSE pc')
                          = rob'[i].pc + Template(instructions, rob'[i].pc).imm
       /\ (CommitsHead /\ rob # <<>> /\ Head(rob).op = "JAL") => regFile' = regFile]_vars

\* the byte address does not fall on a word of main memory
OutOfRange(hi, lo) == hi # 0 \/ (lo \div 4) \notin 0..(MemWords - 1)

\* cycles within which every program of OutsidePrograms is finished
OutsideDeadline == 12

\* C36: an access outside main memory is not an error. A LW that completes
\* with such an address has result 0 and a SW that commits with one leaves
\* memory unchanged; the access is marked ready in the LSQ like any other and
\* retires when it is at the head of the ROB and of the LSQ; the programs
\* that make such accesses run to the finished state with every instruction
\* committed.
C36_OutOfRangeIsNotAnError ==
    [][/\ \A n \in 1..Len(rsLS') :
              LET rs == rsLS'[n] IN
              (/\ "inst" \in DOMAIN rs
               /\ rs.inst.isReady
               /\ OutOfRange(rs.inst.memAddrHi, rs.inst.memAddr))
              => /\ rs.inst.op = "LW" => (rs.inst.result = 0 /\ rs.inst.resultHi = 0)
                 /\ \A i \in 1..Len(lsq') :
                        lsq'[i].robTag = rs.inst.robTag => lsq'[i].isMemReady
       /\ (/\ stage = "commit"
           /\ rob # <<>>
           /\ Head(rob).isReady
           /\ Head(rob).op \in {"LW", "SW"}
           /\ lsq # <<>>
           /\ Head(lsq).robTag = Head(rob).robTag
           /\ Head(lsq).isMemReady
           /\ OutOfRange(Head(lsq).memAddrHi, Head(lsq).memAddr))
          => /\ CommitsHead
             /\ rob' = Tail(rob)
             /\ Head(rob).op = "SW" => memory' = memory
       /\ (instructions \in OutsidePrograms /\ clock' >= OutsideDeadline)
          => (Finished' /\ instructionsCommitted' = Len(instructions))]_vars

\* a store and then a load outside main memory have both committed: the
\* program is finished, memory is untouched and the load wrote 0
C36_Witness ==
    /\ stage = "commit"
    /\ Finished
    /\ Len(instructions) = 3
    /\ instructions[2].op = "SW"
    /\ instructions[3].op = "LW"
    /\ OutOfRange(0, instructions[3].imm)
    /\ instructionsCommitted = 3
    /\ regFile[1] = 7
    /\ regFile[2] = 0
    /\ memory = <<>>
    /\ lsq = <<>>

\* new Simulator(): the fields of a newly constructed simulator
NewSimulator ==
    [memory |-> <<>>, regFile |-> [i \in 0..(NumRegs - 1) |-> 0], pc |-> 0,
     rat |-> [i \in 0..(NumRegs - 1) |-> -1], rob |-> <<>>,
     rsALU |-> initRS(NumALU), rsLS |-> initRS(NumLS), lsq |-> <<>>,
     branchCorrect |-> 0, branchTotal |-> 0, ghr |-> 0, pht |-> <<>>,
     instructionsCommitted |-> 0, nextRobTag |-> 1]

RECURSIVE RunFrom(_, _)
\* the loaded program run from state s: whether it finishes within MaxClock
\* cycles, after how many, and with which registers and memory
RunFrom(s, n) ==
    IF (s.pc >= ProgramEnd(instructions) /\ s.rob = <<>>) \/ n >= MaxClock
    THEN [finished |-> (s.pc >= ProgramEnd(instructions) /\ s.rob = <<>>),
          cycles |-> n, regFile |-> s.regFile, memory |-> s.memory]
    ELSE RunFrom(StepOf(s), n + 1)

\* C37: after loadProgram (clock = 0) the simulator is like a new one: ROB,
\* RS pools and LSQ are empty, the RAT is architectural, registers, memory and
\* committed count are zero, and the run of the loaded program ends after the
\* same number of cycles with the same registers and memory as on a new
\* simulator.
C37_ResetIsLikeNew ==
    clock = 0 =>
        /\ rob = <<>>
        /\ rsALU = initRS(NumALU)
        /\ rsLS = initRS(NumLS)
        /\ lsq = <<>>
        /\ rat = [i \in 0..(NumRegs - 1) |-> -1]
        /\ regFile = [i \in 0..(NumRegs - 1) |-> 0]
        /\ memory = <<>>
        /\ instructionsCommitted = 0
        /\ RunFrom(Cur, 0) = RunFrom(NewSimulator, 0)

====
